---- MODULE Spec2Model ----
(***************************************************************************)
(* Model of the `overloadable` procedural-macro crate (src/src/lib.rs).    *)
(*                                                                         *)
(* A macro invocation is a sequence of token trees.  A token tree is a     *)
(* record [k, v, s]: k is the token kind, v its text (identifier name,     *)
(* punctuation spacing, opaque payload) and s the token trees inside a     *)
(* delimited group.  `::` is two `:` puncts, the first one Joint, as in    *)
(* proc_macro2; peek2/peek3 therefore count its colons one by one.         *)
(*                                                                         *)
(* A span is a path of positions: <<i>> is the i-th token tree of the      *)
(* invocation, <<i, j>> the j-th token tree inside group i, and CallSite   *)
(* (the empty path) is the whole invocation.                               *)
(***************************************************************************)
EXTENDS Integers, Sequences, FiniteSets, TLC

VARIABLES pending, pc, cur, idx, fns_out, results

vars == <<pending, pc, cur, idx, fns_out, results>>

(***************************************************************************)
(* Bounds of the model.                                                    *)
(***************************************************************************)
MaxSigs == 2

CallSite == <<>>

NoVal == [k |-> "none", v |-> "", s |-> <<>>]

(***************************************************************************)
(* Token trees.                                                            *)
(***************************************************************************)
Tok(k) == [k |-> k, v |-> "", s |-> <<>>]
Id(n) == [k |-> "ident", v |-> n, s |-> <<>>]
Grp(k, s) == [k |-> k, v |-> "", s |-> s]
Opaque(k, v) == [k |-> k, v |-> v, s |-> <<>>]
ColonJ == [k |-> ":", v |-> "joint", s |-> <<>>]
Colon == [k |-> ":", v |-> "alone", s |-> <<>>]
PathSep == <<ColonJ, Colon>>

(***************************************************************************)
(* syn's ParseBuffer: a cursor p into toks.  peek looks at the token at    *)
(* the cursor, peek2 and peek3 one and two token trees further.            *)
(***************************************************************************)
Peek(toks, p, k) == p <= Len(toks) /\ toks[p].k = k

\* Token![::] needs a Joint colon followed by a colon; Token![:] matches
\* the first colon of `::` as well as a lone colon.
PeekColon2(toks, p) ==
    /\ Peek(toks, p, ":")
    /\ toks[p].v = "joint"
    /\ Peek(toks, p + 1, ":")

\* A span for an error raised at cursor p of a buffer: the token at the
\* cursor, or the buffer's scope when the buffer is exhausted.
ErrSpan(toks, p, base, scope) ==
    IF p > Len(toks) THEN scope ELSE Append(base, p)

Ok(p) == [ok |-> TRUE, pos |-> p]
Fail(p) == [ok |-> FALSE, pos |-> p]

(***************************************************************************)
(* syn::Path, syn::Type and syn::Pat, restricted to the shapes the inputs  *)
(* use: paths with `self` and identifier segments, references, tuples.     *)
(* A failed parse leaves the cursor where the failure was detected.        *)
(***************************************************************************)
IsSeg(toks, p) == Peek(toks, p, "ident") \/ Peek(toks, p, "self")

RECURSIVE PathSegs(_, _)
PathSegs(toks, p) ==
    IF IsSeg(toks, p)
    THEN IF PeekColon2(toks, p + 1)
         THEN PathSegs(toks, p + 3)
         ELSE Ok(p + 1)
    ELSE Fail(p)

ParsePath(toks, p) ==
    IF PeekColon2(toks, p) THEN PathSegs(toks, p + 2) ELSE PathSegs(toks, p)

RECURSIVE ParseType(_, _)
ParseType(toks, p) ==
    IF Peek(toks, p, "&")
    THEN ParseType(toks, IF Peek(toks, p + 1, "mut") THEN p + 2 ELSE p + 1)
    ELSE IF Peek(toks, p, "paren")
    THEN Ok(p + 1)
    ELSE IF IsSeg(toks, p) \/ PeekColon2(toks, p)
    THEN ParsePath(toks, p)
    ELSE Fail(p)

RECURSIVE ParsePat(_, _)
ParsePat(toks, p) ==
    IF Peek(toks, p, "_")
    THEN Ok(p + 1)
    ELSE IF Peek(toks, p, "&")
    THEN ParsePat(toks, IF Peek(toks, p + 1, "mut") THEN p + 2 ELSE p + 1)
    ELSE IF Peek(toks, p, "paren")
    THEN Ok(p + 1)
    ELSE IF (IsSeg(toks, p) /\ PeekColon2(toks, p + 1)) \/ PeekColon2(toks, p)
    THEN ParsePath(toks, p)
    ELSE IF Peek(toks, p, "mut")
    THEN IF IsSeg(toks, p + 1) THEN Ok(p + 2) ELSE Fail(p + 1)
    ELSE IF IsSeg(toks, p)
    THEN Ok(p + 1)
    ELSE Fail(p)

\* The tokens a successful parse consumed, kept verbatim.
Slice(toks, from, to) == SubSeq(toks, from, to - 1)

(***************************************************************************)
(* enum ThisDef and its parser.  The parser works on the parameter group's *)
(* own ParseBuffer: what it consumes before it fails stays consumed.       *)
(***************************************************************************)
NoThis ==
    [kind |-> "None", and |-> FALSE, mutable |-> FALSE, ty |-> <<>>,
     comma |-> FALSE, toks |-> <<>>]

ThisFail(p) == [ok |-> FALSE, pos |-> p, val |-> NoThis]

ThisDef_Explicit(toks, p) ==
    LET p1 == IF Peek(toks, p, "mut") THEN p + 1 ELSE p
    IN  IF ~Peek(toks, p1, "self") THEN ThisFail(p1)
        ELSE IF ~Peek(toks, p1 + 1, ":") THEN ThisFail(p1 + 1)
        ELSE LET t == ParseType(toks, p1 + 2)
             IN  IF ~t.ok THEN ThisFail(t.pos)
                 ELSE LET p2 == IF Peek(toks, t.pos, ",")
                                THEN t.pos + 1 ELSE t.pos
                      IN  [ok |-> TRUE, pos |-> p2,
                           val |-> [kind |-> "Explicit", and |-> FALSE,
                                    mutable |-> p1 > p,
                                    ty |-> Slice(toks, p1 + 2, t.pos),
                                    comma |-> p2 > t.pos,
                                    toks |-> Slice(toks, p, p2)]]

ThisDef_Implicit(toks, p) ==
    LET p1 == IF Peek(toks, p, "&") THEN p + 1 ELSE p
        p2 == IF Peek(toks, p1, "mut") THEN p1 + 1 ELSE p1
    IN  IF ~Peek(toks, p2, "self") THEN ThisFail(p2)
        ELSE LET p3 == IF Peek(toks, p2 + 1, ",") THEN p2 + 2 ELSE p2 + 1
             IN  [ok |-> TRUE, pos |-> p3,
                  val |-> [kind |-> "Implicit", and |-> p1 > p,
                           mutable |-> p2 > p1, ty |-> <<>>,
                           comma |-> p3 > p2 + 1,
                           toks |-> Slice(toks, p, p3)]]

ThisDef_parse(toks, p) ==
    IF /\ Peek(toks, p + 1, ":") \/ Peek(toks, p + 2, ":")
       /\ Peek(toks, p, "self") \/ Peek(toks, p + 1, "self")
    THEN ThisDef_Explicit(toks, p)
    ELSE IF \/ Peek(toks, p, "self")
            \/ Peek(toks, p + 1, "self")
            \/ Peek(toks, p + 2, "self")
    THEN ThisDef_Implicit(toks, p)
    ELSE ThisFail(p)

\* A variant that forgets the reference marker.
is_sized_dependent_any_implicit(this) == this.kind = "Implicit"

is_sized_dependent(this) == this.kind = "Implicit" /\ ~this.and

(***************************************************************************)
(* parse_pattern_type_pair under Punctuated::parse_terminated: pairs       *)
(* separated by commas, trailing comma allowed, the whole buffer consumed. *)
(***************************************************************************)
ParamsFail(p) == [ok |-> FALSE, pos |-> p, val |-> <<>>]

RECURSIVE parse_params(_, _, _)
parse_params(toks, p, acc) ==
    IF p > Len(toks) THEN [ok |-> TRUE, pos |-> p, val |-> acc]
    ELSE LET a == ParsePat(toks, p)
         IN  IF ~a.ok THEN ParamsFail(a.pos)
             ELSE IF ~Peek(toks, a.pos, ":") THEN ParamsFail(a.pos)
             ELSE LET t == ParseType(toks, a.pos + 1)
                  IN  IF ~t.ok THEN ParamsFail(t.pos)
                      ELSE LET acc2 == Append(acc,
                                   [pat |-> Slice(toks, p, a.pos),
                                    ty |-> Slice(toks, a.pos + 1, t.pos)])
                           IN  IF t.pos > Len(toks)
                               THEN [ok |-> TRUE, pos |-> t.pos, val |-> acc2]
                               ELSE IF Peek(toks, t.pos, ",")
                               THEN parse_params(toks, t.pos + 1, acc2)
                               ELSE ParamsFail(t.pos)

(***************************************************************************)
(* struct ParsedFnDef and its parser, on the invocation's own buffer       *)
(* (spans are top-level positions, an exhausted buffer reports CallSite).  *)
(***************************************************************************)
NoSig ==
    [meta |-> <<>>, gen |-> NoVal, paren |-> CallSite, this |-> NoThis,
     params |-> <<>>, ret |-> [kind |-> "Default", ty |-> <<>>],
     w_clause |-> NoVal, code |-> NoVal]

\* The parser's progress through one definition: the cursor, the first
\* error's span once ok is FALSE, and the fields parsed so far.
SigState(ok, pos, span, val) ==
    [ok |-> ok, pos |-> pos, span |-> span, val |-> val]

SigFail(toks, st) ==
    [st EXCEPT !.ok = FALSE, !.span = ErrSpan(toks, st.pos, <<>>, CallSite)]

\* while input.peek(Token![#]) { `#`, bracketed!, Meta }
RECURSIVE parse_meta(_, _, _)
parse_meta(toks, p, acc) ==
    IF ~Peek(toks, p, "#")
    THEN SigState(TRUE, p, CallSite, [NoSig EXCEPT !.meta = acc])
    ELSE IF ~Peek(toks, p + 1, "bracket")
    THEN SigState(FALSE, p + 1, ErrSpan(toks, p + 1, <<>>, CallSite), NoSig)
    ELSE IF ~Peek(toks[p + 1].s, 1, "ident")
    THEN SigState(FALSE, p + 1,
                  ErrSpan(toks[p + 1].s, 1, <<p + 1>>, <<p + 1>>), NoSig)
    ELSE parse_meta(toks, p + 2,
                    Append(acc, [m |-> toks[p + 1].s, b |-> <<p + 1>>]))

\* input.parse::<Token![fn]>()?
parse_fn_token(toks, st) ==
    IF ~st.ok THEN st
    ELSE IF Peek(toks, st.pos, "fn") THEN [st EXCEPT !.pos = @ + 1]
    ELSE SigFail(toks, st)

\* if input.peek(Token![<]) { Some(Generics) } else { None }
parse_gen(toks, st) ==
    IF ~st.ok THEN st
    ELSE IF Peek(toks, st.pos, "<")
    THEN [st EXCEPT !.pos = @ + 1, !.val.gen = toks[st.pos]]
    ELSE st

\* params_content.parse_terminated(parse_pattern_type_pair)?, from
\* wherever ThisDef::parse left the cursor of params_content.
group_params(content, st, t, ps) ==
    IF ps.ok
    THEN [st EXCEPT !.pos = @ + 1,
                    !.val.paren = <<st.pos>>,
                    !.val.this = IF t.ok THEN t.val ELSE NoThis,
                    !.val.params = ps.val]
    ELSE [st EXCEPT !.ok = FALSE,
                    !.span = ErrSpan(content, ps.pos, <<st.pos>>, <<st.pos>>)]

\* params_content.parse::<ThisDef>().ok()
group_this(content, st, t) ==
    group_params(content, st, t, parse_params(content, t.pos, <<>>))

\* parenthesized!(params_content in input)
parse_group(toks, st) ==
    IF ~st.ok THEN st
    ELSE IF Peek(toks, st.pos, "paren")
    THEN group_this(toks[st.pos].s, st, ThisDef_parse(toks[st.pos].s, 1))
    ELSE SigFail(toks, st)

\* ReturnType: `->` and a Type, or Default.
ret_type(toks, st, t) ==
    IF t.ok
    THEN [st EXCEPT !.pos = t.pos,
                    !.val.ret = [kind |-> "Type",
                                 ty |-> Slice(toks, st.pos + 1, t.pos)]]
    ELSE SigFail(toks, [st EXCEPT !.pos = t.pos])

parse_ret(toks, st) ==
    IF ~st.ok THEN st
    ELSE IF Peek(toks, st.pos, "->")
    THEN ret_type(toks, st, ParseType(toks, st.pos + 1))
    ELSE st

\* if input.peek(Token![where]) { Some(WhereClause) } else { None }
parse_w_clause(toks, st) ==
    IF ~st.ok THEN st
    ELSE IF Peek(toks, st.pos, "where")
    THEN [st EXCEPT !.pos = @ + 1, !.val.w_clause = toks[st.pos]]
    ELSE st

\* let code = input.parse()?   (a Block)
parse_code(toks, st) ==
    IF ~st.ok THEN st
    ELSE IF Peek(toks, st.pos, "brace")
    THEN [st EXCEPT !.pos = @ + 1, !.val.code = toks[st.pos]]
    ELSE SigFail(toks, st)

ParsedFnDef_parse(toks, p) ==
    parse_code(toks,
      parse_w_clause(toks,
        parse_ret(toks,
          parse_group(toks,
            parse_gen(toks,
              parse_fn_token(toks,
                parse_meta(toks, p, <<>>)))))))

\* input.parse_terminated(ParsedFnDef::parse): zero or more definitions
\* separated by commas, trailing comma allowed, until the input is empty.
FnsResult(ok, val, span) == [ok |-> ok, val |-> val, span |-> span]

RECURSIVE parse_fns(_, _, _)
parse_fns_next(toks, f, acc) ==
    IF ~f.ok THEN FnsResult(FALSE, <<>>, f.span)
    ELSE IF f.pos > Len(toks)
    THEN FnsResult(TRUE, Append(acc, f.val), CallSite)
    ELSE IF Peek(toks, f.pos, ",")
    THEN parse_fns(toks, f.pos + 1, Append(acc, f.val))
    ELSE FnsResult(FALSE, <<>>, <<f.pos>>)

parse_fns(toks, p, acc) ==
    IF p > Len(toks) THEN FnsResult(TRUE, acc, CallSite)
    ELSE parse_fns_next(toks, ParsedFnDef_parse(toks, p), acc)

(***************************************************************************)
(* The two headers.  Visibility never fails: `pub` or nothing.             *)
(***************************************************************************)
NoInput ==
    [vis |-> NoVal, struct_name |-> "", name |-> "", fns |-> <<>>]

ParseFail(kind, span) ==
    [ok |-> FALSE, val |-> NoInput, err |-> [kind |-> kind, span |-> span]]

ParseDone(vis, struct_name, name, fns) ==
    IF fns.ok
    THEN [ok |-> TRUE,
          val |-> [vis |-> vis, struct_name |-> struct_name, name |-> name,
                   fns |-> fns.val],
          err |-> [kind |-> "none", span |-> CallSite]]
    ELSE ParseFail("MalformedSignature", fns.span)

OverloadableGlobal_parse(toks) ==
    LET pn == IF Peek(toks, 1, "pub") THEN 2 ELSE 1
    IN  IF ~Peek(toks, pn, "ident")
        THEN ParseFail("MalformedHeader", ErrSpan(toks, pn, <<>>, CallSite))
        ELSE IF ~Peek(toks, pn + 1, "as")
        THEN ParseFail("MalformedHeader", ErrSpan(toks, pn + 1, <<>>, CallSite))
        ELSE ParseDone(IF pn = 2 THEN toks[1] ELSE NoVal, "", toks[pn].v,
                       parse_fns(toks, pn + 2, <<>>))

OverloadableAssociated_parse(toks) ==
    LET pn == IF Peek(toks, 1, "pub") THEN 2 ELSE 1
    IN  IF ~Peek(toks, pn, "ident")
        THEN ParseFail("MalformedHeader", ErrSpan(toks, pn, <<>>, CallSite))
        ELSE IF ~PeekColon2(toks, pn + 1)
        THEN ParseFail("MalformedHeader", ErrSpan(toks, pn + 1, <<>>, CallSite))
        ELSE IF ~Peek(toks, pn + 3, "ident")
        THEN ParseFail("MalformedHeader", ErrSpan(toks, pn + 3, <<>>, CallSite))
        ELSE IF ~Peek(toks, pn + 4, "as")
        THEN ParseFail("MalformedHeader", ErrSpan(toks, pn + 4, <<>>, CallSite))
        ELSE ParseDone(IF pn = 2 THEN toks[1] ELSE NoVal, toks[pn].v,
                       toks[pn + 3].v, parse_fns(toks, pn + 5, <<>>))

(***************************************************************************)
(* Code generation.  Emitted code is a sequence of items; every quoted     *)
(* fragment is kept as the tokens (or parsed values) interpolated in it.   *)
(***************************************************************************)
UnitType == <<Grp("paren", <<>>)>>

RECURSIVE Flatten(_)
Flatten(ss) == IF ss = <<>> THEN <<>> ELSE Head(ss) \o Flatten(Tail(ss))

\* quote_spanned!(b.span => #[#m])
quote_meta(mb) == [attr |-> mb.m, span |-> mb.b]

\* A variant that ignores the declared type.
fn_ret_always_unit(sig) == UnitType

\* gen_fn_decls: the ReturnType match.
fn_ret(sig) == IF sig.ret.kind = "Type" THEN sig.ret.ty ELSE UnitType

\* A variant that collects the types in reverse.
fn_param_types_reversed(sig) ==
    [i \in 1..Len(sig.params) |-> sig.params[Len(sig.params) + 1 - i].ty]

fn_param_types(sig) == [i \in 1..Len(sig.params) |-> sig.params[i].ty]
fn_param_patterns(sig) == [i \in 1..Len(sig.params) |-> sig.params[i].pat]
\* A variant that drops repeated annotations.
RECURSIVE Dedup(_)
Dedup(ms) ==
    IF ms = <<>> THEN <<>>
    ELSE LET front == Dedup(SubSeq(ms, 1, Len(ms) - 1))
         IN  IF \E k \in 1..Len(front) : front[k].m = ms[Len(ms)].m
             THEN front
             ELSE Append(front, ms[Len(ms)])

fn_meta_dedup(sig) ==
    [i \in 1..Len(Dedup(sig.meta)) |-> quote_meta(Dedup(sig.meta)[i])]

fn_meta(sig) == [i \in 1..Len(sig.meta) |-> quote_meta(sig.meta[i])]

XParam == <<Id("x")>>

impl_Fn(sig, name) ==
    [item |-> "impl", trait |-> "Fn", gen |-> sig.gen,
     args |-> fn_param_types(sig), target |-> name,
     w_clause |-> sig.w_clause, output |-> <<>>,
     meta |-> fn_meta(sig), method |-> "call", recv |-> "&self",
     pats |-> fn_param_patterns(sig), ptys |-> fn_param_types(sig),
     ret |-> "Self::Output", body |-> sig.code]

impl_FnOnce(sig, name) ==
    [item |-> "impl", trait |-> "FnOnce", gen |-> sig.gen,
     args |-> fn_param_types(sig), target |-> name,
     w_clause |-> sig.w_clause, output |-> fn_ret(sig),
     meta |-> fn_meta(sig), method |-> "call_once", recv |-> "self",
     pats |-> XParam, ptys |-> fn_param_types(sig),
     ret |-> "Self::Output", body |-> Opaque("brace", "self.call(x)")]

impl_FnMut(sig, name) ==
    [item |-> "impl", trait |-> "FnMut", gen |-> sig.gen,
     args |-> fn_param_types(sig), target |-> name,
     w_clause |-> sig.w_clause, output |-> <<>>,
     meta |-> fn_meta(sig), method |-> "call_mut", recv |-> "&mut self",
     pats |-> XParam, ptys |-> fn_param_types(sig),
     ret |-> "Self::Output", body |-> Opaque("brace", "self.call(x)")]

NoErr == [kind |-> "none", span |-> CallSite]

\* A variant without the receiver check.
gen_fn_closure_unchecked(sig, name) ==
    [ok |-> TRUE,
     val |-> <<impl_Fn(sig, name), impl_FnOnce(sig, name),
               impl_FnMut(sig, name)>>,
     err |-> NoErr]

\* The closure gen_fn_decls maps over the definitions.
gen_fn_closure(sig, name) ==
    IF sig.this.kind # "None"
    THEN [ok |-> FALSE, val |-> <<>>,
          err |-> [kind |-> "ReceiverNotAllowed", span |-> sig.paren]]
    ELSE [ok |-> TRUE,
          val |-> <<impl_Fn(sig, name), impl_FnOnce(sig, name),
                    impl_FnMut(sig, name)>>,
          err |-> NoErr]

\* quote_spanned! { name.span() => ... #vis struct #name; }
struct_decl(vis, name) == [item |-> "struct", vis |-> vis, name |-> name]

(***************************************************************************)
(* gen_trait_fn_decls.                                                     *)
(***************************************************************************)
Digit(d) ==
    CASE d = 0 -> "0" [] d = 1 -> "1" [] d = 2 -> "2" [] d = 3 -> "3"
      [] d = 4 -> "4" [] d = 5 -> "5" [] d = 6 -> "6" [] d = 7 -> "7"
      [] d = 8 -> "8" [] d = 9 -> "9"

\* Display of a usize.
RECURSIVE Decimal(_)
Decimal(n) ==
    IF n < 10 THEN Digit(n) ELSE Decimal(n \div 10) \o Digit(n % 10)

\* Variants: a name without the index, and a name that includes the
\* method's name.
trait_name_no_index(struct_name, name, index) == struct_name \o "Trait"

trait_name_with_method(struct_name, name, index) ==
    struct_name \o "Trait" \o name \o Decimal(index)

\* format!("{}Trait{}", struct_name, index)
trait_name(struct_name, name, index) ==
    struct_name \o "Trait" \o Decimal(index)

trait_ret(sig) == IF sig.ret.kind = "Type" THEN sig.ret.ty ELSE UnitType

\* format!("_{}", index) : rhs, the index counted from 0
trait_params(sig) ==
    [i \in 1..Len(sig.params) |->
        [pat |-> <<Id("_" \o Decimal(i - 1))>>, ty |-> sig.params[i].ty]]

impl_params(sig) ==
    [i \in 1..Len(sig.params) |->
        [pat |-> sig.params[i].pat, ty |-> sig.params[i].ty]]

trait_meta(sig) == [i \in 1..Len(sig.meta) |-> quote_meta(sig.meta[i])]

\* The closure gen_trait_fn_decls maps over the enumerated definitions.
gen_trait_closure(index, sig, name, struct_name, vis) ==
    <<[item |-> "trait", vis |-> vis,
       name |-> trait_name(struct_name, name, index),
       sized |-> is_sized_dependent(sig.this),
       method |-> name, gen |-> sig.gen, this |-> sig.this.toks,
       params |-> trait_params(sig), ret |-> trait_ret(sig),
       w_clause |-> sig.w_clause, meta |-> <<>>, target |-> "",
       body |-> NoVal],
      [item |-> "impl", vis |-> NoVal,
       name |-> trait_name(struct_name, name, index),
       sized |-> FALSE,
       method |-> name, gen |-> sig.gen, this |-> sig.this.toks,
       params |-> impl_params(sig), ret |-> trait_ret(sig),
       w_clause |-> sig.w_clause, meta |-> trait_meta(sig),
       target |-> struct_name, body |-> sig.code]>>

(***************************************************************************)
(* Inputs: headers, parameter groups and definitions, as token trees.      *)
(***************************************************************************)
T_ == Id("T")
U_ == Id("U")
Comma == Tok(",")
Self_ == Tok("self")
Mut_ == Tok("mut")
And_ == Tok("&")

Attr(n) == <<Tok("#"), Grp("bracket", <<Id(n)>>)>>
Body == Opaque("brace", "body")
Arrow(ty) == <<Tok("->")>> \o ty
Generics_ == Opaque("<", "T")
Where_ == Opaque("where", "T: Debug")
Fn(metas, gen, group, rest) ==
    metas \o <<Tok("fn")>> \o gen \o <<Grp("paren", group)>> \o rest

G_a == <<Id("a"), Colon, T_>>
G_ab == <<Id("a"), Colon, T_, Comma, Id("b"), Colon, And_, U_>>
G_selfpath_ty == <<Id("a"), Colon, Self_>> \o PathSep \o <<T_, Comma>>
G_selfpath_pat == <<Self_>> \o PathSep \o <<Id("A"), Colon, T_>>
G_refmut_selfpath == <<And_, Mut_, Self_>> \o PathSep \o <<Id("A"), Colon, T_>>
G_wild == <<Tok("_"), Colon, T_, Comma, Mut_, Id("b"), Colon, U_>>

SigSet ==
    { Fn(<<>>, <<>>, G_a, <<Body>>),
      Fn(Attr("inline"), <<Generics_>>, G_ab, Arrow(<<T_>>) \o <<Where_, Body>>),
      Fn(Attr("inline") \o Attr("inline"), <<>>, <<>>, <<Body>>),
      Fn(Attr("cold") \o Attr("inline"), <<>>, G_selfpath_ty,
         Arrow(<<And_, T_>>) \o <<Body>>),
      Fn(<<>>, <<>>, G_wild, Arrow(UnitType) \o <<Body>>),
      Fn(<<>>, <<>>, <<Self_>>, <<Body>>),
      Fn(Attr("inline"), <<>>, <<And_, Self_, Comma>> \o G_a,
         Arrow(<<U_>>) \o <<Body>>),
      Fn(<<>>, <<>>, <<Mut_, Self_, Comma>> \o G_ab, <<Body>>),
      Fn(<<>>, <<>>, <<And_, Mut_, Self_>>, Arrow(<<T_>>) \o <<Body>>),
      Fn(<<>>, <<>>, <<Self_, Colon, T_, Comma>> \o G_a,
         Arrow(<<U_>>) \o <<Body>>),
      Fn(Attr("inline") \o Attr("cold"), <<>>, <<Mut_, Self_, Colon, T_>>,
         <<Body>>),
      Fn(<<>>, <<>>, G_selfpath_pat, <<Body>>),
      Fn(<<>>, <<>>, G_refmut_selfpath, <<Body>>),
      Fn(<<>>, <<>>, G_a, <<>>),
      Fn(<<>>, <<>>, <<Id("a")>>, <<Body>>),
      Fn(<<Tok("#"), Grp("bracket", <<>>)>>, <<>>, <<>>, <<Body>>) }

RECURSIVE SeqsUpTo(_, _)
SeqsUpTo(S, n) ==
    IF n = 0 THEN {<<>>}
    ELSE LET shorter == SeqsUpTo(S, n - 1)
         IN  shorter \cup {Append(l, x) : l \in shorter, x \in S}

RECURSIVE Join(_)
Join(sigs) ==
    IF Len(sigs) = 0 THEN <<>>
    ELSE IF Len(sigs) = 1 THEN sigs[1]
    ELSE sigs[1] \o <<Comma>> \o Join(Tail(sigs))

FreeHeaders ==
    { <<Id("f"), Tok("as")>>, <<Tok("pub"), Id("f"), Tok("as")>> }

MemberHeader(owner, name) == <<Id(owner)>> \o PathSep \o <<Id(name), Tok("as")>>

MemberHeaders ==
    { MemberHeader("Foo", "g"), <<Tok("pub")>> \o MemberHeader("Foo", "h") }

BadHeaders == { <<Id("f")>>, <<Id("Foo"), Colon, Id("g"), Tok("as")>> }

Invocation(mac, header, sigs, trailing) ==
    [mac |-> mac,
     toks |-> header \o Join(sigs) \o (IF trailing THEN <<Comma>> ELSE <<>>)]

Invocations ==
    { Invocation(mac, h, sigs, t) :
        mac \in {"overloadable", "overloadable_member"},
        h \in FreeHeaders \cup MemberHeaders,
        sigs \in SeqsUpTo(SigSet, MaxSigs),
        t \in BOOLEAN }
    \cup
    { Invocation(mac, h, <<>>, FALSE) :
        mac \in {"overloadable", "overloadable_member"}, h \in BadHeaders }

(***************************************************************************)
(* The expansions.  pending holds the invocations the compiler has still   *)
(* to expand, results one outcome per expansion already made.              *)
(***************************************************************************)
Outcome(inv, parsed, input, gen_err, diag, emitted) ==
    [mac |-> inv.mac, toks |-> inv.toks, parsed |-> parsed, input |-> input,
     gen_err |-> gen_err, diag |-> diag, emitted |-> emitted]

NoDiag == [kind |-> "none", err |-> "none", span |-> CallSite]

\* parse_macro_input!: a parse error becomes a compile_error! carrying
\* the error's span.
CompileError(err) ==
    [kind |-> "compile_error", err |-> err.kind, span |-> err.span]

\* Result::unwrap on Err: the macro panics, and the compiler reports the
\* panic at the macro invocation.
UnwrapPanic(err) == [kind |-> "panic", err |-> err.kind, span |-> CallSite]

Inv0 == Head(pending)

Begin(mac, parse, next_pc) ==
    /\ pc = "idle"
    /\ pending # <<>>
    /\ Inv0.mac = mac
    /\ IF parse.ok
       THEN /\ cur' = parse.val
            /\ pc' = next_pc
            /\ UNCHANGED <<pending, results>>
       ELSE /\ results' = Append(results,
                Outcome(Inv0, FALSE, NoInput, NoErr, CompileError(parse.err),
                        <<>>))
            /\ pending' = Tail(pending)
            /\ UNCHANGED <<cur, pc>>
    /\ idx' = 0
    /\ fns_out' = <<>>

Finish(parsed_err, diag, emitted) ==
    /\ results' = Append(results,
            Outcome(Inv0, TRUE, cur, parsed_err, diag, emitted))
    /\ pending' = Tail(pending)
    /\ pc' = "idle"
    /\ cur' = NoInput
    /\ idx' = 0
    /\ fns_out' = <<>>

\* overloadable: parse_macro_input!(input as OverloadableGlobal)
overloadable_parse ==
    Begin("overloadable", OverloadableGlobal_parse(Inv0.toks), "gen_fn")

\* gen_fn_decls: one call of the closure; the first Err ends the collect
\* and overloadable's unwrap panics.
gen_fn_decls_step ==
    /\ pc = "gen_fn"
    /\ idx < Len(cur.fns)
    /\ LET r == gen_fn_closure(cur.fns[idx + 1], cur.name)
       IN  IF r.ok
           THEN /\ fns_out' = Append(fns_out, r.val)
                /\ idx' = idx + 1
                /\ UNCHANGED <<pending, pc, cur, results>>
           ELSE Finish(r.err, UnwrapPanic(r.err), <<>>)

\* overloadable: quote! { #struct_decl #(#fn_decls)* }
overloadable_emit ==
    /\ pc = "gen_fn"
    /\ idx = Len(cur.fns)
    /\ Finish(NoErr, NoDiag,
              <<struct_decl(cur.vis, cur.name)>> \o Flatten(fns_out))

\* overloadable_member: parse_macro_input!(input as OverloadableAssociated)
overloadable_member_parse ==
    Begin("overloadable_member", OverloadableAssociated_parse(Inv0.toks),
          "gen_trait")

\* gen_trait_fn_decls: one call of the closure, which never fails.
gen_trait_fn_decls_step ==
    /\ pc = "gen_trait"
    /\ idx < Len(cur.fns)
    /\ fns_out' = Append(fns_out,
            gen_trait_closure(idx, cur.fns[idx + 1], cur.name,
                              cur.struct_name, cur.vis))
    /\ idx' = idx + 1
    /\ UNCHANGED <<pending, pc, cur, results>>

overloadable_member_emit ==
    /\ pc = "gen_trait"
    /\ idx = Len(cur.fns)
    /\ Finish(NoErr, NoDiag, Flatten(fns_out))

Next ==
    \/ overloadable_parse
    \/ gen_fn_decls_step
    \/ overloadable_emit
    \/ overloadable_member_parse
    \/ gen_trait_fn_decls_step
    \/ overloadable_member_emit

InitCommon ==
    /\ pc = "idle"
    /\ cur = NoInput
    /\ idx = 0
    /\ fns_out = <<>>
    /\ results = <<>>

\* One expansion of any invocation.
Init ==
    /\ pending \in {<<i>> : i \in Invocations}
    /\ InitCommon

Spec == Init /\ [][Next]_vars

(***************************************************************************)
(* A crate with two invocations, expanded one after the other.             *)
(***************************************************************************)
MemberSigs ==
    << Fn(<<>>, <<>>, <<And_, Self_>>, Arrow(<<T_>>) \o <<Body>>),
       Fn(Attr("inline"), <<>>, <<Self_, Comma>> \o G_a, <<Body>>),
       Fn(<<>>, <<>>, G_ab, <<Body>>),
       Fn(<<>>, <<>>, <<Mut_, Self_, Colon, T_>>, <<Body>>) >>

MemberSigList(n) == [i \in 1..n |-> MemberSigs[((i - 1) % Len(MemberSigs)) + 1]]

CrateInvocations ==
    { Invocation("overloadable_member", h, MemberSigList(n), FALSE) :
        h \in MemberHeaders \cup {MemberHeader("Bar", "g")}, n \in 0..MaxSigs }
    \cup
    { Invocation("overloadable", <<Id("f"), Tok("as")>>, sigs, FALSE) :
        sigs \in { <<MemberSigs[3]>>, <<MemberSigs[3], MemberSigs[1]>> } }
    \cup
    { Invocation("overloadable", <<Id("f")>>, <<>>, FALSE) }

InitCrate ==
    /\ pending \in {<<i, j>> : i \in CrateInvocations, j \in CrateInvocations}
    /\ InitCommon

SpecCrate == InitCrate /\ [][Next]_vars

(***************************************************************************)
(* Vocabulary of the properties: the outcomes recorded so far, and the     *)
(* input tokens a definition was parsed from.                              *)
(***************************************************************************)
Outcomes == {results[i] : i \in 1..Len(results)}

Expanded(r, mac) == r.mac = mac /\ r.parsed /\ r.diag.kind = "none"

Sigs(r) == r.input.fns

\* The tokens of the parameter group of definition i.
GroupOf(r, i) == r.toks[Sigs(r)[i].paren[1]].s

\* The group starts with one of the six receiver descriptors.
ImplicitReceiver(g) ==
    LET a == IF Peek(g, 1, "&") THEN 2 ELSE 1
        m == IF Peek(g, a, "mut") THEN a + 1 ELSE a
    IN  Peek(g, m, "self") /\ (Len(g) = m \/ Peek(g, m + 1, ","))

ExplicitReceiver(g) ==
    LET m == IF Peek(g, 1, "mut") THEN 2 ELSE 1
    IN  Peek(g, m, "self") /\ Peek(g, m + 1, ":") /\ g[m + 1].v = "alone"

HasReceiver(g) == ImplicitReceiver(g) \/ ExplicitReceiver(g)

\* The three implementation blocks emitted for definition i.
FnBlocks(r, i) == <<r.emitted[3 * i - 1], r.emitted[3 * i], r.emitted[3 * i + 1]>>

\* The interface and the implementation emitted for definition i.
TraitOf(r, i) == r.emitted[2 * i - 1]
ImplOf(r, i) == r.emitted[2 * i]

\* The declared return type of definition i, read off the input: the
\* tokens between the `->` after the parameter group and the constraint
\* clause or body; <<>> when no arrow follows the group.
DeclaredRet(r, i) ==
    LET toks == r.toks
        pg == Sigs(r)[i].paren[1]
        stop == CHOOSE j \in (pg + 1)..Len(toks) :
                    /\ toks[j].k \in {"where", "brace"}
                    /\ \A k \in (pg + 1)..(j - 1) :
                          toks[k].k \notin {"where", "brace"}
    IN  IF Peek(toks, pg + 1, "->") THEN SubSeq(toks, pg + 2, stop - 1)
        ELSE <<>>

HasArrow(r, i) == Peek(r.toks, Sigs(r)[i].paren[1] + 1, "->")

ExpectedRet(r, i) == IF HasArrow(r, i) THEN DeclaredRet(r, i) ELSE UnitType

\* The annotations of the whole invocation, in source order.
IsAttr(t) == t.k = "bracket"
AttrGroups(r) == SelectSeq(r.toks, IsAttr)
DeclaredAttrs(r) == [j \in 1..Len(AttrGroups(r)) |-> AttrGroups(r)[j].s]

MetaOfBlock(b) == [j \in 1..Len(b.meta) |-> b.meta[j].attr]

\* The annotations parsed for one definition.
ParsedAttrs(sig) == [j \in 1..Len(sig.meta) |-> sig.meta[j].m]

\* The annotations carried by the k-th block (1 call, 2 call_once,
\* 3 call_mut) of every definition, concatenated in source order.
EmittedAttrs(r, k) ==
    Flatten([i \in 1..Len(Sigs(r)) |-> MetaOfBlock(FnBlocks(r, i)[k])])

(***************************************************************************)
(* Properties.                                                             *)
(***************************************************************************)

\* C1: in the free form, when any definition of a parsed invocation carries
\* a receiver descriptor, gen_fn_decls returns ReceiverNotAllowed and the
\* expansion emits nothing, wherever that definition sits in the list.
C1_ReceiverRejected ==
    \A r \in Outcomes :
        ( /\ r.mac = "overloadable"
          /\ r.parsed
          /\ \E i \in 1..Len(Sigs(r)) : HasReceiver(GroupOf(r, i)) )
        => /\ r.gen_err.kind = "ReceiverNotAllowed"
           /\ r.emitted = <<>>

C1_Witness ==
    \E r \in Outcomes :
        /\ r.mac = "overloadable"
        /\ r.parsed
        /\ Len(Sigs(r)) >= 2
        /\ ~HasReceiver(GroupOf(r, 1))
        /\ HasReceiver(GroupOf(r, Len(Sigs(r))))
        /\ r.gen_err.kind = "ReceiverNotAllowed"
        /\ r.emitted = <<>>

\* C2: in both generators the generated return type of a definition is
\* `()` when the definition has no arrow, and the declared type, token for
\* token, when it has one.
C2_ReturnType ==
    \A r \in Outcomes :
        /\ Expanded(r, "overloadable") =>
              \A i \in 1..Len(Sigs(r)) :
                  /\ FnBlocks(r, i)[2].output = ExpectedRet(r, i)
                  /\ \A k \in 1..3 : FnBlocks(r, i)[k].ret = "Self::Output"
        /\ Expanded(r, "overloadable_member") =>
              \A i \in 1..Len(Sigs(r)) :
                  /\ TraitOf(r, i).ret = ExpectedRet(r, i)
                  /\ ImplOf(r, i).ret = ExpectedRet(r, i)

C2_Witness ==
    /\ \E r \in Outcomes :
          /\ Expanded(r, "overloadable")
          /\ \E i, j \in 1..Len(Sigs(r)) :
                /\ ~HasArrow(r, i) /\ FnBlocks(r, i)[2].output = UnitType
                /\ HasArrow(r, j) /\ FnBlocks(r, j)[2].output = <<And_, T_>>
    \/ \E r \in Outcomes :
          /\ Expanded(r, "overloadable_member")
          /\ \E i, j \in 1..Len(Sigs(r)) :
                /\ ~HasArrow(r, i) /\ TraitOf(r, i).ret = UnitType
                /\ HasArrow(r, j) /\ TraitOf(r, j).ret = <<And_, T_>>

\* C3: for every definition the free-function generator accepts, each of
\* the three blocks (call, call_once, call_mut) takes as many parameters
\* as pairs were parsed, with the declared types in the same order.
C3_Arity ==
    \A r \in Outcomes :
        Expanded(r, "overloadable") =>
            \A i \in 1..Len(Sigs(r)) : \A k \in 1..3 :
                LET b == FnBlocks(r, i)[k]
                    ps == Sigs(r)[i].params
                IN  /\ Len(b.ptys) = Len(ps)
                    /\ Len(b.args) = Len(ps)
                    /\ \A j \in 1..Len(ps) :
                          b.ptys[j] = ps[j].ty /\ b.args[j] = ps[j].ty

C3_Witness ==
    \E r \in Outcomes :
        /\ Expanded(r, "overloadable")
        /\ \E i \in 1..Len(Sigs(r)) :
              /\ Len(Sigs(r)[i].params) = 2
              /\ FnBlocks(r, i)[3].ptys = <<<<T_>>, <<And_, U_>>>>
              /\ FnBlocks(r, i)[3].method = "call_mut"

\* C4: a member-form invocation with N definitions emits exactly N
\* interfaces, the i-th for the i-th definition, no two with the same name.
C4_InterfacesDistinct ==
    \A r \in Outcomes :
        Expanded(r, "overloadable_member") =>
            LET n == Len(Sigs(r))
                traits == {k \in 1..Len(r.emitted) : r.emitted[k].item = "trait"}
            IN  /\ Cardinality(traits) = n
                /\ \A i \in 1..n :
                      /\ TraitOf(r, i).item = "trait"
                      /\ TraitOf(r, i).this = Sigs(r)[i].this.toks
                      /\ Len(TraitOf(r, i).params) = Len(Sigs(r)[i].params)
                      /\ ImplOf(r, i).body = Sigs(r)[i].code
                /\ \A i, j \in 1..n :
                      i # j => TraitOf(r, i).name # TraitOf(r, j).name

C4_Witness ==
    \E r \in Outcomes :
        /\ Expanded(r, "overloadable_member")
        /\ Len(Sigs(r)) >= 2
        /\ TraitOf(r, 1).name = "FooTrait0"
        /\ TraitOf(r, 2).name = "FooTrait1"

\* C5: in the member generator the interface of a definition requires
\* Sized exactly when the definition's receiver is `self` or `mut self`.
ByValueReceiver(g) == ImplicitReceiver(g) /\ ~Peek(g, 1, "&")

C5_SizedIffByValue ==
    \A r \in Outcomes :
        Expanded(r, "overloadable_member") =>
            \A i \in 1..Len(Sigs(r)) :
                TraitOf(r, i).sized <=> ByValueReceiver(GroupOf(r, i))

C5_Witness ==
    \E r \in Outcomes :
        /\ Expanded(r, "overloadable_member")
        /\ \E i, j \in 1..Len(Sigs(r)) :
              /\ Peek(GroupOf(r, i), 1, "mut") /\ TraitOf(r, i).sized
              /\ Peek(GroupOf(r, j), 1, "&") /\ ~TraitOf(r, j).sized

\* C8: the three methods generated for a definition carry all of its
\* annotations, in their original order, none dropped or merged.
C8_AnnotationsReemitted ==
    \A r \in Outcomes :
        Expanded(r, "overloadable") =>
            /\ \A k \in 1..3 : EmittedAttrs(r, k) = DeclaredAttrs(r)
            /\ \A i \in 1..Len(Sigs(r)) : \A k \in 1..3 :
                  MetaOfBlock(FnBlocks(r, i)[k]) = ParsedAttrs(Sigs(r)[i])

C8_Witness ==
    \E r \in Outcomes :
        /\ Expanded(r, "overloadable")
        /\ \E i, j \in 1..Len(Sigs(r)) :
              /\ MetaOfBlock(FnBlocks(r, i)[2]) = <<<<Id("inline")>>, <<Id("inline")>>>>
              /\ MetaOfBlock(FnBlocks(r, j)[3]) = <<<<Id("cold")>>, <<Id("inline")>>>>

\* C6: every failure of an expansion is reported as a compile-time
\* diagnostic anchored at the offending token, never at the whole
\* invocation; ReceiverNotAllowed is anchored at the receiver token of the
\* offending definition.  A parse that fails because the input has ended
\* has no offending token (syn anchors it at the invocation): the property
\* is stated for every other failure.
EndOfInput(r) == ~r.parsed /\ r.diag.span = CallSite

C6_PreciseSpan ==
    \A r \in Outcomes :
        (r.diag.kind # "none" /\ ~EndOfInput(r)) =>
            /\ r.diag.kind = "compile_error"
            /\ r.diag.err \in {"MalformedHeader", "MalformedSignature",
                               "ReceiverNotAllowed"}
            /\ r.diag.span # CallSite
            /\ r.diag.err = "ReceiverNotAllowed" =>
                  \E i \in 1..Len(Sigs(r)) :
                      /\ Sigs(r)[i].this.kind # "None"
                      /\ r.diag.span = <<Sigs(r)[i].paren[1], 1>>

\* C7: a successful parse of either header yields at least one definition.
C7_NonEmpty ==
    \A r \in Outcomes : r.parsed => Len(Sigs(r)) >= 1

\* C9: when the start of a parameter group is not a receiver descriptor
\* and the group is a well-formed list of (pattern, type) pairs, the
\* definition parses, its receiver is absent and its parameters are those
\* the ordinary-parameter parser yields on the whole group.
OrdinaryParams(g) == parse_params(g, 1, <<>>)

C9_FallbackKeepsParams ==
    \A r \in Outcomes : \A pg \in 1..Len(r.toks) :
        ( /\ r.toks[pg].k = "paren"
          /\ ~ThisDef_parse(r.toks[pg].s, 1).ok
          /\ OrdinaryParams(r.toks[pg].s).ok )
        => /\ ~( /\ ~r.parsed
                 /\ r.diag.err = "MalformedSignature"
                 /\ Len(r.diag.span) >= 1
                 /\ r.diag.span[1] = pg )
           /\ r.parsed =>
                 \A i \in 1..Len(Sigs(r)) :
                     Sigs(r)[i].paren = <<pg>> =>
                         /\ Sigs(r)[i].this = NoThis
                         /\ Sigs(r)[i].params = OrdinaryParams(r.toks[pg].s).val

\* C10: the name of the i-th interface is the owner's name, `Trait` and
\* the index counted from 0, whatever the method is called and whatever
\* was expanded before: two expansions for one owner emit equal names at
\* equal indices.
OwnerText(r) == r.toks[IF Peek(r.toks, 1, "pub") THEN 2 ELSE 1].v

C10_NameFromOwnerAndIndex ==
    /\ \A a, b \in 1..Len(results) :
          ( /\ Expanded(results[a], "overloadable_member")
            /\ Expanded(results[b], "overloadable_member")
            /\ OwnerText(results[a]) = OwnerText(results[b]) )
          => \A i \in 1..Len(Sigs(results[a])) :
                i <= Len(Sigs(results[b])) =>
                    TraitOf(results[a], i).name = TraitOf(results[b], i).name
    /\ \A a \in 1..Len(results) :
          Expanded(results[a], "overloadable_member") =>
              \A i \in 1..Len(Sigs(results[a])) :
                  TraitOf(results[a], i).name
                      = OwnerText(results[a]) \o "Trait" \o Decimal(i - 1)

C10_Witness ==
    /\ Len(results) = 2
    /\ Expanded(results[1], "overloadable_member")
    /\ Expanded(results[2], "overloadable_member")
    /\ OwnerText(results[1]) = OwnerText(results[2])
    /\ results[1].input.name # results[2].input.name
    /\ Len(Sigs(results[1])) >= 2
    /\ Len(Sigs(results[2])) >= 2
    /\ TraitOf(results[1], 2).name = "FooTrait1"
    /\ TraitOf(results[2], 2).name = "FooTrait1"

====
